---- MODULE Spec2Model ----
(***************************************************************************)
(* Model of apache_mod_status_exporter.py: the polling loop of main, the   *)
(* fan-out/fan-in of collect_metrics, the per-target unit of work          *)
(* fetch_and_update, the status parser of fetch_apache_status, the gauge   *)
(* projection of update_metrics and the URL normaliser                     *)
(* ensure_auto_parameter, and the proxy options from the configuration     *)
(* file to the call of session.get.                                        *)
(*                                                                         *)
(* Spec is the collection loop; UrlSpec, TextSpec and ProxySpec apply      *)
(* ensure_auto_parameter, the parser with update_metrics, and the proxy    *)
(* handling to every input of a bounded shape.                             *)
(*                                                                         *)
(* Text is modelled as a sequence of tokens.  A token is either a single   *)
(* character (a digit, a letter, ".", "-", ":", " ", "\n", "?", "&", "=",  *)
(* "#") or a word of letters.  Chars gives the characters of a token and   *)
(* Spell the Python string a token sequence stands for: several token      *)
(* sequences can spell one string ("http" "s" and "https"), so a test      *)
(* against a string of the library is made on the spelling.  The inputs    *)
(* that are explored write every word as one token; on them two texts are  *)
(* equal as Python strings exactly when they are equal as token sequences. *)
(***************************************************************************)
EXTENDS Integers, Sequences, FiniteSets, TLC

VARIABLES
    config,     \* the parsed configuration: target label -> its url (or NoUrl)
    mainPc,     \* position of main / collect_metrics
    idx,        \* position of the for loop of collect_metrics in Sections
    cycle,      \* number of the collection cycle
    task,       \* per label, the asyncio task created for it
    registry,   \* the Prometheus gauges: label -> gauge name -> value
    regAtStart, \* history: the registry when the current cycle started
    printed,    \* labels named by the diagnostics printed in the current cycle
    prev,       \* history: per label, what the cycle before fetched for it
    url,        \* UrlSpec: the URL handed to ensure_auto_parameter
    newUrl,     \* UrlSpec: what ensure_auto_parameter returned
    againUrl,   \* UrlSpec: what ensure_auto_parameter returned for newUrl
    urlPc,      \* UrlSpec: number of applications of ensure_auto_parameter
    page,       \* TextSpec: the status lines the response text was written from
    text,       \* TextSpec: the response text
    parsedStatus, \* TextSpec: the server_status mapping parsed from text
    labelGauges,  \* TextSpec: the gauges of the label, after update_metrics
    didRaise,   \* TextSpec: update_metrics raised
    textPc,     \* TextSpec: 0 before, 1 after the text has been processed
    pxConfig,   \* ProxySpec: the proxy options of the configuration file
    pxGlobal,   \* ProxySpec: global_http_proxy, global_https_proxy of main
    pxTask,     \* ProxySpec: the proxies handed to fetch_and_update
    pxEnviron,  \* ProxySpec: os.environ['http_proxy'], os.environ['https_proxy']
    pxGet,      \* ProxySpec: the proxy argument of session.get
    pxPc        \* ProxySpec: position in main / collect_metrics / fetch

mainVars == <<config, mainPc, idx, cycle, task, registry, regAtStart, printed,
              prev>>
urlVars == <<url, newUrl, againUrl, urlPc>>
textVars == <<page, text, parsedStatus, labelGauges, didRaise, textPc>>
proxyVars == <<pxConfig, pxGlobal, pxTask, pxEnviron, pxGet, pxPc>>
otherVars == <<urlVars, textVars, proxyVars>>

vars == <<mainVars, urlVars, textVars, proxyVars>>

-----------------------------------------------------------------------------
(* Bounds *)

\* number of collection cycles of the while-True loop that are explored
MaxCycles == 2

\* longest query string (in tokens) of the URLs explored by UrlSpec
MaxQueryLen == 4

\* longest response text (in tokens) over the alphabet RawTokens of TextSpec
MaxTextLen == 7

\* most status lines of a response text written from StatusLines, and the
\* largest worker count on such a line
MaxLines == 2
MaxWorkers == 7

-----------------------------------------------------------------------------
(* Generic text helpers *)

Drop(s, n) == SubSeq(s, n + 1, Len(s))

HasPrefix(s, p) == Len(s) >= Len(p) /\ SubSeq(s, 1, Len(p)) = p

\* str.split(sep): the pieces between the non-overlapping occurrences of sep,
\* scanning from the left; cur is the piece being accumulated
RECURSIVE SplitAcc(_, _, _)
SplitAcc(s, sep, cur) ==
    IF s = <<>> THEN <<cur>>
    ELSE IF HasPrefix(s, sep)
         THEN <<cur>> \o SplitAcc(Drop(s, Len(sep)), sep, <<>>)
         ELSE SplitAcc(Tail(s), sep, Append(cur, Head(s)))

str_split(s, sep) == SplitAcc(s, sep, <<>>)

\* str.split(sep, 1): at most one split, at the first occurrence
RECURSIVE Split1Acc(_, _, _)
Split1Acc(s, sep, cur) ==
    IF s = <<>> THEN <<cur>>
    ELSE IF HasPrefix(s, sep)
         THEN <<cur, Drop(s, Len(sep))>>
         ELSE Split1Acc(Tail(s), sep, Append(cur, Head(s)))

str_split1(s, sep) == Split1Acc(s, sep, <<>>)

Whitespace == {" ", "\n"}

RECURSIVE LStrip(_)
LStrip(s) == IF s # <<>> /\ Head(s) \in Whitespace THEN LStrip(Tail(s)) ELSE s

RECURSIVE RStrip(_)
RStrip(s) ==
    IF s # <<>> /\ s[Len(s)] \in Whitespace
    THEN RStrip(SubSeq(s, 1, Len(s) - 1)) ELSE s

\* str.strip()
str_strip(s) == RStrip(LStrip(s))

-----------------------------------------------------------------------------
(* Numbers: a gauge value is a rational <<numerator, denominator>> in lowest *)
(* terms, so that 3 / 6 = 0.5 = ".5" are one value                          *)

Digits == {"0", "1", "2", "3", "4", "5", "6", "7", "8", "9"}

DigitVal(c) ==
    CASE c = "0" -> 0 [] c = "1" -> 1 [] c = "2" -> 2 [] c = "3" -> 3
      [] c = "4" -> 4 [] c = "5" -> 5 [] c = "6" -> 6 [] c = "7" -> 7
      [] c = "8" -> 8 [] c = "9" -> 9

RECURSIVE GCD(_, _)
GCD(a, b) == IF b = 0 THEN a ELSE GCD(b, a % b)

Rat(n, d) == LET g == GCD(n, d) IN <<n \div g, d \div g>>

RECURSIVE Pow10(_)
Pow10(k) == IF k = 0 THEN 1 ELSE 10 * Pow10(k - 1)

RECURSIVE DigitsToInt(_, _)
DigitsToInt(s, acc) ==
    IF s = <<>> THEN acc ELSE DigitsToInt(Tail(s), 10 * acc + DigitVal(Head(s)))

\* The result of a conversion: ok = FALSE stands for a raised ValueError
Converted(v) == [ok |-> TRUE, v |-> v]
ValueError == [ok |-> FALSE, v |-> <<0, 1>>]

\* What dict.get(key, 0) returned: the stored string, or the default integer 0
Stored(s) == [dflt |-> FALSE, s |-> s]
DefaultZero == [dflt |-> TRUE, s |-> <<>>]

AllDigits(p) == \A i \in 1..Len(p) : p[i] \in Digits

\* a numeric string may start with one sign
Sign(p) == IF p # <<>> /\ Head(p) = "-" THEN -1 ELSE 1
Unsigned(p) == IF p # <<>> /\ Head(p) \in {"-", "+"} THEN Tail(p) ELSE p

\* int(x), as a rational: the integer 0 is itself; a string must be decimal
\* digits only, after an optional sign ("3", "-3", "+3"; "3.5", "1e2", "inf",
\* "abc", "-" and "" raise)
python_int(x) ==
    IF x.dflt THEN Converted(Rat(0, 1))
    ELSE IF Unsigned(x.s) # <<>> /\ AllDigits(Unsigned(x.s))
         THEN Converted(Rat(Sign(x.s) * DigitsToInt(Unsigned(x.s), 0), 1))
         ELSE ValueError

\* the floats that are no rationals: inf is <<1, 0>>, -inf is <<-1, 0>> and
\* nan is <<0, 0>>
Infinity(sign) == <<sign, 0>>
NaN == <<0, 0>>

\* the spellings of the alphabet that float() reads as inf and as nan (it
\* reads them in any case)
InfWords == {"inf", "Inf", "INF", "infinity", "Infinity", "INFINITY"}
NanWords == {"nan", "NaN", "NAN"}

\* the value of the decimal m / 10^k times 10^e
Scaled(m, k, e) == IF e >= k THEN Rat(m * Pow10(e - k), 1) ELSE Rat(m, Pow10(k - e))

\* float(x): the integer 0 gives 0.0.  A string is an optional sign followed
\* by inf, infinity or nan, or by digits with at most one point and at least
\* one digit ("3", "3.", ".5", "0.5") and then an optional exponent, e or E
\* with an optional sign and at least one digit ("1e-05", "2.5E3"); anything
\* else raises.  The value is the decimal's own: the texts explored are short
\* enough to be told apart by a double, and their numerators and denominators
\* stay within TLC's integers (an exponent has one digit that is not 0)
python_float(x) ==
    IF x.dflt THEN Converted(Rat(0, 1))
    ELSE LET body == Unsigned(x.s)
             ePos == IF \E i \in 1..Len(body) : body[i] \in {"e", "E"}
                     THEN CHOOSE i \in 1..Len(body) :
                              /\ body[i] \in {"e", "E"}
                              /\ \A j \in 1..(i - 1) : body[j] \notin {"e", "E"}
                     ELSE 0
             mantissa == IF ePos = 0 THEN body ELSE SubSeq(body, 1, ePos - 1)
             exponent == IF ePos = 0 THEN <<>> ELSE Drop(body, ePos)
             expOk == ePos = 0 \/ (/\ Unsigned(exponent) # <<>>
                                   /\ AllDigits(Unsigned(exponent)))
             e == IF ePos = 0 THEN 0
                  ELSE Sign(exponent) * DigitsToInt(Unsigned(exponent), 0)
             parts == str_split(mantissa, <<".">>)
             mantOk == \/ Len(parts) = 1 /\ parts[1] # <<>> /\ AllDigits(parts[1])
                       \/ /\ Len(parts) = 2
                          /\ parts[1] \o parts[2] # <<>>
                          /\ AllDigits(parts[1]) /\ AllDigits(parts[2])
             digits == IF Len(parts) = 2 THEN parts[1] \o parts[2] ELSE parts[1]
             k == IF Len(parts) = 2 THEN Len(parts[2]) ELSE 0
         IN  IF Len(body) = 1 /\ body[1] \in InfWords
             THEN Converted(Infinity(Sign(x.s)))
             ELSE IF Len(body) = 1 /\ body[1] \in NanWords
             THEN Converted(NaN)
             ELSE IF mantOk /\ expOk
             THEN Converted(Scaled(Sign(x.s) * DigitsToInt(digits, 0), k, e))
             ELSE ValueError

-----------------------------------------------------------------------------
(* fetch_apache_status, lines 55-63: the parser of the response text *)

\* a parser that splits every line at its first ': ' only, item.split(': ', 1),
\* and so accepts the lines that have more than one
RECURSIVE AcceptedLinesSplitFirst(_)
AcceptedLinesSplitFirst(items) ==
    IF items = <<>> THEN <<>>
    ELSE LET splitted == str_split1(Head(items), <<":", " ">>)
         IN  (IF Len(splitted) = 2
              THEN << <<str_strip(splitted[1]), str_strip(splitted[2])>> >>
              ELSE <<>>) \o AcceptedLinesSplitFirst(Tail(items))

\* the accepted lines, in order, as <<key, value>> pairs: a line is accepted
\* when item.split(': ') has exactly two pieces; both are stripped
RECURSIVE AcceptedLines(_)
AcceptedLines(items) ==
    IF items = <<>> THEN <<>>
    ELSE LET splitted == str_split(Head(items), <<":", " ">>)
         IN  (IF Len(splitted) = 2
              THEN << <<str_strip(splitted[1]), str_strip(splitted[2])>> >>
              ELSE <<>>) \o AcceptedLines(Tail(items))

\* a parser that keeps the first value of a key, as server_status.setdefault
\* would
ParseStatusFirstWins(data) ==
    LET acc == AcceptedLines(str_split(data, <<"\n">>))
        keys == {acc[i][1] : i \in 1..Len(acc)}
        first(k) == CHOOSE i \in 1..Len(acc) :
                       /\ acc[i][1] = k
                       /\ \A j \in 1..Len(acc) : acc[j][1] = k => i <= j
    IN  [k \in keys |-> acc[first(k)][2]]

\* server_status after the for loop: a later assignment to a key overwrites
parse_status(data) ==
    LET acc == AcceptedLines(str_split(data, <<"\n">>))
        keys == {acc[i][1] : i \in 1..Len(acc)}
        last(k) == CHOOSE i \in 1..Len(acc) :
                      /\ acc[i][1] = k
                      /\ \A j \in 1..Len(acc) : acc[j][1] = k => j <= i
    IN  [k \in keys |-> acc[last(k)][2]]

\* server_status.get(key, 0)
dict_get(server_status, key) ==
    IF key \in DOMAIN server_status THEN Stored(server_status[key]) ELSE DefaultZero

-----------------------------------------------------------------------------
(* update_metrics, lines 66-89 *)

Unset == <<>>

GaugeNames == {"total_accesses", "cpu_load", "uptime", "req_per_sec",
               "bytes_per_sec", "busy_workers", "idle_workers", "worker_ratio"}

\* the five float fields in the order of lines 72-76: <<key, gauge>>
FloatFields == <<
    << <<"Total", " ", "Accesses">>, "total_accesses" >>,
    << <<"CPULoad">>,                 "cpu_load" >>,
    << <<"Uptime">>,                  "uptime" >>,
    << <<"ReqPerSec">>,               "req_per_sec" >>,
    << <<"BytesPerSec">>,             "bytes_per_sec" >> >>

KeyBusyWorkers == <<"BusyWorkers">>
KeyIdleWorkers == <<"IdleWorkers">>

\* Gauge.labels(hostname=label) on the gauges g of one label: the child of an
\* unseen label is created on first use, holding 0.0
gauge_labels(g, name) == IF g[name] = Unset THEN [g EXCEPT ![name] = Rat(0, 1)] ELSE g

\* a gauge that adds v to what it holds, as Gauge.inc(v) or a Counter would
GaugeInc(g, name, v) ==
    LET child == gauge_labels(g, name)
    IN  [child EXCEPT ![name] = Rat(child[name][1] * v[2] + v[1] * child[name][2],
                                    child[name][2] * v[2])]

\* Gauge.labels(hostname=label).set(v)
gauge_set(g, name, v) == [gauge_labels(g, name) EXCEPT ![name] = v]

\* lines 72-76 from field i on.  Python evaluates gauge.labels(...) before the
\* argument float(...), so a ValueError of field i leaves gauge i created but
\* not set, the gauges before it set and the gauges after it untouched
RECURSIVE SetFloatFields(_, _, _)
SetFloatFields(g, server_status, i) ==
    IF i > Len(FloatFields) THEN [g |-> g, raised |-> FALSE]
    ELSE LET child == gauge_labels(g, FloatFields[i][2])
             c == python_float(dict_get(server_status, FloatFields[i][1]))
         IN  IF c.ok
             THEN SetFloatFields(gauge_set(child, FloatFields[i][2], c.v),
                                 server_status, i + 1)
             ELSE [g |-> child, raised |-> TRUE]

\* a ratio that falls back to 0 when there is no idle worker
WorkerRatioZeroFallback(busy, idle) ==
    IF idle[1] > 0 THEN Rat(busy[1] * idle[2], busy[2] * idle[1]) ELSE Rat(0, 1)

\* lines 85-88: busy / idle when idle > 0, else busy
worker_ratio(busy, idle) ==
    IF idle[1] > 0 THEN Rat(busy[1] * idle[2], busy[2] * idle[1]) ELSE busy

\* a projection that sets each worker gauge as soon as its value is converted
SetWorkersOneByOne(g, server_status) ==
    LET busy == python_int(dict_get(server_status, KeyBusyWorkers))
        idle == python_int(dict_get(server_status, KeyIdleWorkers))
    IN  IF ~busy.ok THEN [g |-> g, raised |-> TRUE]
        ELSE IF ~idle.ok
             THEN [g |-> gauge_set(g, "busy_workers", busy.v), raised |-> TRUE]
             ELSE [g |-> gauge_set(gauge_set(gauge_set(g,
                             "busy_workers", busy.v),
                             "idle_workers", idle.v),
                             "worker_ratio", worker_ratio(busy.v, idle.v)),
                   raised |-> FALSE]

\* lines 79-89: both int() conversions come before either worker gauge is set
SetWorkers(g, server_status) ==
    LET busy == python_int(dict_get(server_status, KeyBusyWorkers))
        idle == python_int(dict_get(server_status, KeyIdleWorkers))
    IN  IF ~busy.ok \/ ~idle.ok THEN [g |-> g, raised |-> TRUE]
        ELSE [g |-> gauge_set(gauge_set(gauge_set(g,
                        "busy_workers", busy.v),
                        "idle_workers", idle.v),
                        "worker_ratio", worker_ratio(busy.v, idle.v)),
              raised |-> FALSE]

\* update_metrics on the gauges g of server_label: the gauges it leaves and
\* whether it raised
update_metrics(g, server_status) ==
    LET f == SetFloatFields(g, server_status, 1)
    IN  IF f.raised THEN f ELSE SetWorkers(f.g, server_status)

-----------------------------------------------------------------------------
(* ensure_auto_parameter, lines 22-37, with the urllib.parse functions it    *)
(* calls.  The URL alphabet has no "%", "+" or ";", so unquoting and path    *)
(* parameters do not arise                                                   *)

IndexOf(s, c) ==
    IF \E i \in 1..Len(s) : s[i] = c
    THEN CHOOSE i \in 1..Len(s) : s[i] = c /\ \A j \in 1..(i - 1) : s[j] # c
    ELSE 0

\* the schemes of the URLs that are explored
SchemeWords == {"http", "HTTP", "https"}

\* the tokens of the alphabet that are words of letters, those that
\* str.lower() makes of them included
LetterWords == {"http", "HTTP", "https", "HTTPS", "Https", "ftp", "h", "s", "f",
                "x", "auto", "AUTO", "abc", "K", "k", "e", "E",
                "Total", "Accesses", "CPULoad", "Uptime", "ReqPerSec",
                "BytesPerSec", "BusyWorkers", "IdleWorkers", "Scoreboard",
                "total", "accesses", "cpuload", "uptime", "reqpersec",
                "bytespersec", "busyworkers", "idleworkers", "scoreboard"}
                   \cup InfWords \cup NanWords

\* urllib.parse.scheme_chars: letters, digits, "+", "-" and "."
SchemeChars == LetterWords \cup Digits \cup {"+", "-", "."}

\* the characters of a token of the alphabet
Chars(c) ==
    CASE c = "http" -> <<"h", "t", "t", "p">>
      [] c = "HTTP" -> <<"H", "T", "T", "P">>
      [] c = "https" -> <<"h", "t", "t", "p", "s">>
      [] c = "HTTPS" -> <<"H", "T", "T", "P", "S">>
      [] c = "Https" -> <<"H", "t", "t", "p", "s">>
      [] c = "ftp" -> <<"f", "t", "p">>
      [] c = "auto" -> <<"a", "u", "t", "o">>
      [] c = "AUTO" -> <<"A", "U", "T", "O">>
      [] c = "abc" -> <<"a", "b", "c">>
      [] c = "Total" -> <<"T", "o", "t", "a", "l">>
      [] c = "Accesses" -> <<"A", "c", "c", "e", "s", "s", "e", "s">>
      [] c = "CPULoad" -> <<"C", "P", "U", "L", "o", "a", "d">>
      [] c = "Uptime" -> <<"U", "p", "t", "i", "m", "e">>
      [] c = "ReqPerSec" -> <<"R", "e", "q", "P", "e", "r", "S", "e", "c">>
      [] c = "BytesPerSec" -> <<"B", "y", "t", "e", "s", "P", "e", "r", "S", "e", "c">>
      [] c = "BusyWorkers" -> <<"B", "u", "s", "y", "W", "o", "r", "k", "e", "r", "s">>
      [] c = "IdleWorkers" -> <<"I", "d", "l", "e", "W", "o", "r", "k", "e", "r", "s">>
      [] c = "Scoreboard" -> <<"S", "c", "o", "r", "e", "b", "o", "a", "r", "d">>
      [] c = "inf" -> <<"i", "n", "f">>
      [] c = "Inf" -> <<"I", "n", "f">>
      [] c = "INF" -> <<"I", "N", "F">>
      [] c = "infinity" -> <<"i", "n", "f", "i", "n", "i", "t", "y">>
      [] c = "Infinity" -> <<"I", "n", "f", "i", "n", "i", "t", "y">>
      [] c = "INFINITY" -> <<"I", "N", "F", "I", "N", "I", "T", "Y">>
      [] c = "nan" -> <<"n", "a", "n">>
      [] c = "NaN" -> <<"N", "a", "N">>
      [] c = "NAN" -> <<"N", "A", "N">>
      [] c = "accesses" -> <<"a", "c", "c", "e", "s", "s", "e", "s">>
      [] c = "busyworkers" -> <<"b", "u", "s", "y", "w", "o", "r", "k", "e", "r", "s">>
      [] c = "bytespersec" -> <<"b", "y", "t", "e", "s", "p", "e", "r", "s", "e", "c">>
      [] c = "cpuload" -> <<"c", "p", "u", "l", "o", "a", "d">>
      [] c = "idleworkers" -> <<"i", "d", "l", "e", "w", "o", "r", "k", "e", "r", "s">>
      [] c = "reqpersec" -> <<"r", "e", "q", "p", "e", "r", "s", "e", "c">>
      [] c = "scoreboard" -> <<"s", "c", "o", "r", "e", "b", "o", "a", "r", "d">>
      [] c = "total" -> <<"t", "o", "t", "a", "l">>
      [] c = "uptime" -> <<"u", "p", "t", "i", "m", "e">>
      [] OTHER -> <<c>>

\* the Python string that the token sequence s stands for, character by
\* character
RECURSIVE Spell(_)
Spell(s) == IF s = <<>> THEN <<>> ELSE Chars(Head(s)) \o Spell(Tail(s))

\* urllib.parse.uses_netloc (Python 3.11), each member character by character
uses_netloc ==
    {<<>>, <<"f", "t", "p">>, <<"h", "t", "t", "p">>,
     <<"g", "o", "p", "h", "e", "r">>, <<"n", "n", "t", "p">>,
     <<"t", "e", "l", "n", "e", "t">>, <<"i", "m", "a", "p">>,
     <<"w", "a", "i", "s">>, <<"f", "i", "l", "e">>, <<"m", "m", "s">>,
     <<"h", "t", "t", "p", "s">>, <<"s", "h", "t", "t", "p">>,
     <<"s", "n", "e", "w", "s">>, <<"p", "r", "o", "s", "p", "e", "r", "o">>,
     <<"r", "t", "s", "p">>, <<"r", "t", "s", "p", "s">>,
     <<"r", "t", "s", "p", "u">>, <<"r", "s", "y", "n", "c">>,
     <<"s", "v", "n">>, <<"s", "v", "n", "+", "s", "s", "h">>,
     <<"s", "f", "t", "p">>, <<"n", "f", "s">>, <<"g", "i", "t">>,
     <<"g", "i", "t", "+", "s", "s", "h">>, <<"w", "s">>, <<"w", "s", "s">>}

\* str.lower() on the words of the alphabet
LowerTok(c) ==
    CASE c = "HTTP" -> "http" [] c = "HTTPS" -> "https" [] c = "Https" -> "https"
      [] c = "AUTO" -> "auto" [] c = "K" -> "k" [] c = "E" -> "e"
      [] c = "Total" -> "total" [] c = "Accesses" -> "accesses"
      [] c = "CPULoad" -> "cpuload" [] c = "Uptime" -> "uptime"
      [] c = "ReqPerSec" -> "reqpersec" [] c = "BytesPerSec" -> "bytespersec"
      [] c = "BusyWorkers" -> "busyworkers" [] c = "IdleWorkers" -> "idleworkers"
      [] c = "Scoreboard" -> "scoreboard"
      [] c \in {"Inf", "INF"} -> "inf"
      [] c \in {"Infinity", "INFINITY"} -> "infinity"
      [] c \in {"NaN", "NAN"} -> "nan"
      [] OTHER -> c

str_lower(s) == [i \in 1..Len(s) |-> LowerTok(s[i])]

\* the netloc ends at the first "/", "?" or "#"
RECURSIVE NetlocLen(_)
NetlocLen(s) ==
    IF s = <<>> \/ Head(s) \in {"/", "?", "#"} THEN 0 ELSE 1 + NetlocLen(Tail(s))

\* urlparse(url): scheme (lowercased), netloc, path, query, fragment.  Leading
\* whitespace is stripped and newlines are removed first; a scheme is what
\* stands before the first ":" when it starts with a letter and is made of
\* scheme characters
urlparse(url0) ==
    LET u == SelectSeq(LStrip(url0), LAMBDA t : t # "\n")
        c == IndexOf(u, ":")
        hasScheme == /\ c > 1
                     /\ u[1] \in LetterWords
                     /\ \A i \in 1..(c - 1) : u[i] \in SchemeChars
        scheme == IF hasScheme THEN str_lower(SubSeq(u, 1, c - 1)) ELSE <<>>
        r1 == IF hasScheme THEN Drop(u, c) ELSE u
        hasNetloc == HasPrefix(r1, <<"/", "/">>)
        n == IF hasNetloc THEN NetlocLen(Drop(r1, 2)) ELSE 0
        netloc == IF hasNetloc THEN SubSeq(r1, 3, 2 + n) ELSE <<>>
        r2 == IF hasNetloc THEN Drop(r1, 2 + n) ELSE r1
        f == str_split1(r2, <<"#">>)
        fragment == IF Len(f) = 2 THEN f[2] ELSE <<>>
        q == str_split1(f[1], <<"?">>)
        query == IF Len(q) = 2 THEN q[2] ELSE <<>>
    IN  [scheme |-> scheme, netloc |-> netloc, path |-> q[1],
         query |-> query, fragment |-> fragment]

\* urlunparse(parts): empty components are left out with their delimiter
urlunparse(p) ==
    LET slashed == IF p.path # <<>> /\ Head(p.path) # "/"
                   THEN <<"/">> \o p.path ELSE p.path
        u1 == IF \/ p.netloc # <<>>
                 \/ /\ p.scheme # <<>>
                    /\ Spell(p.scheme) \in uses_netloc
                    /\ ~HasPrefix(p.path, <<"/", "/">>)
              THEN <<"/", "/">> \o p.netloc \o slashed ELSE p.path
        u2 == IF p.scheme # <<>> THEN p.scheme \o <<":">> \o u1 ELSE u1
        u3 == IF p.query # <<>> THEN u2 \o <<"?">> \o p.query ELSE u2
    IN  IF p.fragment # <<>> THEN u3 \o <<"#">> \o p.fragment ELSE u3

\* parse_qsl: s.replace('+', ' ') on a name or a value (the alphabet has no
\* "%", so unquote changes nothing else)
replace_plus(s) == [i \in 1..Len(s) |-> IF s[i] = "+" THEN " " ELSE s[i]]

\* the <<name, value>> pairs parse_qsl keeps, in order: the query is split at
\* "&", each piece at its first "="; keep_blank_values is False, so a piece
\* with no "=" or with an empty value is dropped
RECURSIVE KeptPairs(_)
KeptPairs(pieces) ==
    IF pieces = <<>> THEN <<>>
    ELSE LET nv == str_split1(Head(pieces), <<"=">>)
         IN  (IF Head(pieces) # <<>> /\ Len(nv) = 2 /\ nv[2] # <<>>
              THEN << <<replace_plus(nv[1]), replace_plus(nv[2])>> >>
              ELSE <<>>) \o KeptPairs(Tail(pieces))

\* parse_qs(query): name -> the list of its values, in their order
parse_qs(query) ==
    LET kept == KeptPairs(str_split(query, <<"&">>))
        names == {kept[i][1] : i \in 1..Len(kept)}
    IN  [n \in names |->
            LET own == SelectSeq(kept, LAMBDA kv : kv[1] = n)
            IN  [i \in 1..Len(own) |-> own[i][2]]]

ensure_auto_parameter(u) ==
    LET parsed_url == urlparse(u)
        query_params == parse_qs(parsed_url.query)
    IN  IF <<"auto">> \notin DOMAIN query_params
        THEN LET new_query == IF parsed_url.query # <<>>
                              THEN parsed_url.query \o <<"&", "auto">>
                              ELSE <<"auto">>
             IN  urlunparse([parsed_url EXCEPT !.query = new_query])
        ELSE u

-----------------------------------------------------------------------------
(* The configuration and the response texts that are explored *)

\* config.sections(): the global section and one section per target
Sections == <<"config", "a", "b">>

Targets == {Sections[i] : i \in 1..Len(Sections)} \ {"config"}

\* a target section with no url option
NoUrl == <<"NoUrl">>

UrlPlain == <<"http", ":", "/", "/", "h", "/", "s">>
UrlBareAuto == <<"http", ":", "/", "/", "h", "/", "s", "?", "auto">>

ConfigUrls == {UrlPlain, UrlBareAuto}

\* a healthy page: every field, BusyWorkers 3 and IdleWorkers 6
BodyFull == <<"Total", " ", "Accesses", ":", " ", "1", "2", "\n",
              "CPULoad", ":", " ", ".", "5", "\n",
              "Uptime", ":", " ", "7", "\n",
              "ReqPerSec", ":", " ", "3", "\n",
              "BytesPerSec", ":", " ", "6", "\n",
              "BusyWorkers", ":", " ", "3", "\n",
              "IdleWorkers", ":", " ", "6", "\n">>

\* only the worker fields, no idle worker, and a line with no separator
BodyWorkers == <<"Scoreboard", "\n",
                 "BusyWorkers", ":", " ", "5", "\n",
                 "IdleWorkers", ":", " ", "0">>

\* a page with no status line at all
BodyEmpty == <<>>

\* CPULoad is present and not a number
BodyBadFloat == <<"Total", " ", "Accesses", ":", " ", "7", "\n",
                  "CPULoad", ":", " ", "abc", "\n",
                  "BusyWorkers", ":", " ", "4">>

\* IdleWorkers is a number that int() refuses
BodyBadInt == <<"Uptime", ":", " ", "9", "\n",
                "BusyWorkers", ":", " ", "2", "\n",
                "IdleWorkers", ":", " ", "1", ".", "5">>

Bodies == {BodyFull, BodyWorkers, BodyEmpty, BodyBadFloat, BodyBadInt}

-----------------------------------------------------------------------------
(* The asyncio tasks *)

NoTask == [st |-> "none", cyc |-> 0, url |-> <<>>, parsed |-> FALSE,
           server_status |-> <<>>, err |-> "none", gets |-> 0, made |-> 0]

\* a task that has been created and has neither returned nor raised
InFlight == {"pending", "fetching", "reading"}

\* asyncio.create_task(fetch_and_update(session, server_label, url, ...)) in
\* cycle c, where old is the latest task of the same label: gets counts the
\* calls of session.get the task has made, made the tasks the cycle has
\* created for the label
create_task(old, c, u) ==
    [st |-> "pending", cyc |-> c, url |-> u, parsed |-> FALSE,
     server_status |-> <<>>, err |-> "none", gets |-> 0,
     made |-> IF old.cyc = c THEN old.made + 1 ELSE 1]

\* session.get(url, ...), line 53, called by the task t
session_get(t) == [t EXCEPT !.st = "fetching", !.gets = @ + 1]

\* what the task t fetched in cycle c, for the comparison of two cycles
NoContent == [parsed |-> FALSE, server_status |-> <<>>]
fetched_content(t, c) ==
    IF t.cyc = c /\ t.parsed
    THEN [parsed |-> TRUE, server_status |-> t.server_status]
    ELSE NoContent

\* gauges without the hostname label: one set of values for every target
UnlabelledGauges(reg, l, g) == [m \in DOMAIN reg |-> g]

\* gauge.labels(hostname=server_label): the gauges of l become g, the gauges
\* of the other labels are not touched
labels_hostname(reg, l, g) == [reg EXCEPT ![l] = g]

\* asyncio.run on its way out cancels every task that is still not done
asyncio_run_cancel_all(tk) ==
    [l \in DOMAIN tk |->
        IF tk[l].st \in InFlight THEN [tk[l] EXCEPT !.st = "cancelled"] ELSE tk[l]]

\* an exception that escapes the task instead of being handled in it: gather
\* re-raises it, collect_metrics and asyncio.run end with it, the other tasks
\* are cancelled and main dies
ExceptionEscapes(tk, l, e, pc, pr) ==
    [task |-> asyncio_run_cancel_all([tk EXCEPT ![l].st = "failed", ![l].err = e]),
     mainPc |-> "crashed", printed |-> pr]

\* a handler that sends the request once more after a first failure
RetryOnce(tk, l, e, pc, pr) ==
    [task |-> IF tk[l].gets < 2
              THEN [tk EXCEPT ![l].st = "pending"]
              ELSE [tk EXCEPT ![l].st = "failed", ![l].err = e],
     mainPc |-> pc, printed |-> pr \cup {l}]

\* fetch_and_update, lines 117-118: the exception e raised in the unit of work
\* of l is caught there and printed with the label; nothing else is touched
fetch_and_update_except(tk, l, e, pc, pr) ==
    [task |-> [tk EXCEPT ![l].st = "failed", ![l].err = e],
     mainPc |-> pc, printed |-> pr \cup {l}]

\* await asyncio.gather(*tasks) returns as soon as it is evaluated
GatherNotAwaited(tk, c) == TRUE

\* await asyncio.gather(*tasks): every task of the cycle has returned
gather_complete(tk, c) ==
    \A l \in DOMAIN tk : tk[l].cyc = c => tk[l].st \notin InFlight

\* a scheduler that starts the next pass while the last one is still gathering
LoopReadyOverlapping(pc) == pc \in {"loop", "gather"}

\* main, lines 152-156: the loop body starts over only after asyncio.run has
\* returned and time.sleep has elapsed
LoopReady(pc) == pc = "loop"

\* a session whose requests have no time limit
NoTimeout(t) == FALSE

\* aiohttp.ClientSession() of line 96 is built with the library's default
\* ClientTimeout (a total of 5 minutes), which bounds each session.get
\* together with the reading of its body
request_can_time_out(t) == t.st \in {"fetching", "reading"}

-----------------------------------------------------------------------------
(* Init and the actions of the collection loop *)

UrlIdle == /\ url = <<>>
           /\ newUrl = <<>>
           /\ againUrl = <<>>
           /\ urlPc = 0

TextIdle == /\ page = <<>>
            /\ text = <<>>
            /\ parsedStatus = <<>>
            /\ labelGauges = [g \in GaugeNames |-> Unset]
            /\ didRaise = FALSE
            /\ textPc = 0

NoProxy == [set |-> FALSE, v |-> ""]
NoProxies == [http |-> NoProxy, https |-> NoProxy]

ProxyIdle == /\ pxConfig = [global |-> NoProxies, target |-> NoProxies, scheme |-> "http"]
             /\ pxGlobal = NoProxies
             /\ pxTask = NoProxies
             /\ pxEnviron = NoProxies
             /\ pxGet = NoProxy
             /\ pxPc = "off"

MainIdle == /\ config = [l \in Targets |-> UrlPlain]
            /\ mainPc = "off"
            /\ idx = 0
            /\ cycle = 0
            /\ task = [l \in Targets |-> NoTask]
            /\ registry = [l \in Targets |-> [g \in GaugeNames |-> Unset]]
            /\ regAtStart = [l \in Targets |-> [g \in GaugeNames |-> Unset]]
            /\ printed = {}
            /\ prev = [l \in Targets |-> NoContent]

Init ==
    /\ config \in [Targets -> ConfigUrls \cup {NoUrl}]
    /\ mainPc = "loop"
    /\ idx = 0
    /\ cycle = 0
    /\ task = [l \in Targets |-> NoTask]
    /\ registry = [l \in Targets |-> [g \in GaugeNames |-> Unset]]
    /\ regAtStart = [l \in Targets |-> [g \in GaugeNames |-> Unset]]
    /\ printed = {}
    /\ prev = [l \in Targets |-> NoContent]
    /\ UrlIdle
    /\ TextIdle
    /\ ProxyIdle

\* main, line 153: asyncio.run(collect_metrics(...)) up to the for loop
StartCycle ==
    /\ LoopReady(mainPc)
    /\ cycle < MaxCycles
    /\ cycle' = cycle + 1
    /\ mainPc' = "creating"
    /\ idx' = 1
    /\ regAtStart' = registry
    /\ printed' = {}
    /\ prev' = [l \in Targets |-> fetched_content(task[l], cycle)]
    /\ UNCHANGED <<config, task, registry, otherVars>>

\* collect_metrics, lines 99-100
SkipConfigSection ==
    /\ mainPc = "creating"
    /\ idx <= Len(Sections)
    /\ Sections[idx] = "config"
    /\ idx' = idx + 1
    /\ UNCHANGED <<config, mainPc, cycle, task, registry, regAtStart, printed, prev, otherVars>>

\* collect_metrics, lines 101-106, for a section that has a url
CreateTask ==
    /\ mainPc = "creating"
    /\ idx <= Len(Sections)
    /\ Sections[idx] # "config"
    /\ config[Sections[idx]] # NoUrl
    /\ task' = [task EXCEPT ![Sections[idx]] =
                    create_task(task[Sections[idx]], cycle,
                                ensure_auto_parameter(config[Sections[idx]]))]
    /\ idx' = idx + 1
    /\ UNCHANGED <<config, mainPc, cycle, registry, regAtStart, printed, prev, otherVars>>

\* collect_metrics, line 101, for a section with no url: config[label]['url']
\* raises KeyError, which nothing catches: the async with of line 96 closes
\* the session and collect_metrics ends with the exception.  The tasks made
\* so far have not had the event loop yet
MissingUrl ==
    /\ mainPc = "creating"
    /\ idx <= Len(Sections)
    /\ Sections[idx] # "config"
    /\ config[Sections[idx]] = NoUrl
    /\ mainPc' = "crashing"
    /\ UNCHANGED <<config, idx, cycle, task, registry, regAtStart, printed, prev, otherVars>>

\* a task made before the KeyError gets its first turn before the event loop
\* stops: fetch_and_update runs into session.get (line 53) on the closed
\* session.  Either the session refuses the request with a RuntimeError, which
\* the handler of line 117 catches, or it takes it and the task is left
\* waiting for a response
TaskStartClosed(l, refused) ==
    /\ mainPc = "crashing"
    /\ task[l].st = "pending"
    /\ IF refused
       THEN LET h == fetch_and_update_except([task EXCEPT ![l] = session_get(task[l])],
                                            l, "RuntimeError", mainPc, printed)
            IN  /\ task' = h.task
                /\ mainPc' = h.mainPc
                /\ printed' = h.printed
       ELSE /\ task' = [task EXCEPT ![l] = session_get(task[l])]
            /\ UNCHANGED <<mainPc, printed>>
    /\ UNCHANGED <<config, idx, cycle, registry, regAtStart, prev, otherVars>>

\* line 153: asyncio.run cancels the tasks that are still waiting and raises
\* the KeyError, which ends main
RunRaises ==
    /\ mainPc = "crashing"
    /\ \A l \in Targets : task[l].st # "pending"
    /\ task' = asyncio_run_cancel_all(task)
    /\ mainPc' = "crashed"
    /\ UNCHANGED <<config, idx, cycle, registry, regAtStart, printed, prev, otherVars>>

\* collect_metrics, line 107: the for loop is over, gather is awaited
AwaitGather ==
    /\ mainPc = "creating"
    /\ idx > Len(Sections)
    /\ mainPc' = "gather"
    /\ UNCHANGED <<config, idx, cycle, task, registry, regAtStart, printed, prev, otherVars>>

\* a task gets the event loop for the first time (only once collect_metrics
\* awaits): fetch_and_update runs into session.get, lines 114-115 and 45-53
\* (what lines 43-53 do with the proxies is FetchWithProxy of ProxySpec)
TaskStart(l) ==
    /\ mainPc = "gather"
    /\ task[l].st = "pending"
    /\ task' = [task EXCEPT ![l] = session_get(task[l])]
    /\ UNCHANGED <<config, mainPc, idx, cycle, registry, regAtStart, printed, prev, otherVars>>

\* the exception e is raised inside the unit of work of l
Raise(l, e) ==
    LET h == fetch_and_update_except(task, l, e, mainPc, printed)
    IN  /\ task' = h.task
        /\ mainPc' = h.mainPc
        /\ printed' = h.printed

\* line 53: the connection fails (refused, reset, DNS, ...)
ConnectionError(l) ==
    /\ mainPc = "gather"
    /\ task[l].st \in {"fetching", "reading"}
    /\ Raise(l, "ClientError")
    /\ UNCHANGED <<config, idx, cycle, registry, regAtStart, prev, otherVars>>

\* lines 53-54: the response head arrives; raise_for_status raises unless 2xx
ResponseHead(l, ok) ==
    /\ mainPc = "gather"
    /\ task[l].st = "fetching"
    /\ IF ok
       THEN /\ task' = [task EXCEPT ![l].st = "reading"]
            /\ UNCHANGED <<mainPc, printed>>
       ELSE Raise(l, "ClientResponseError")
    /\ UNCHANGED <<config, idx, cycle, registry, regAtStart, prev, otherVars>>

\* lines 56-63 and 116: the body arrives, is parsed, and update_metrics sets
\* the gauges of l; a ValueError in it reaches the handler of line 117
ResponseBody(l, data) ==
    /\ mainPc = "gather"
    /\ task[l].st = "reading"
    /\ LET server_status == parse_status(data)
           r == update_metrics(registry[l], server_status)
           t == [task EXCEPT ![l].parsed = TRUE, ![l].server_status = server_status]
       IN  /\ registry' = labels_hostname(registry, l, r.g)
           /\ IF r.raised
              THEN LET h == fetch_and_update_except(t, l, "ValueError", mainPc, printed)
                   IN  /\ task' = h.task
                       /\ mainPc' = h.mainPc
                       /\ printed' = h.printed
              ELSE /\ task' = [t EXCEPT ![l].st = "done"]
                   /\ UNCHANGED <<mainPc, printed>>
    /\ UNCHANGED <<config, idx, cycle, regAtStart, prev, otherVars>>

\* the request of l runs into the session's time limit
Timeout(l) ==
    /\ mainPc = "gather"
    /\ request_can_time_out(task[l])
    /\ Raise(l, "TimeoutError")
    /\ UNCHANGED <<config, idx, cycle, registry, regAtStart, prev, otherVars>>

\* line 107 and line 153: gather returns, collect_metrics and asyncio.run
\* return, time.sleep begins
CollectReturn ==
    /\ mainPc = "gather"
    /\ gather_complete(task, cycle)
    /\ task' = asyncio_run_cancel_all(task)
    /\ mainPc' = "sleeping"
    /\ UNCHANGED <<config, idx, cycle, registry, regAtStart, printed, prev, otherVars>>

\* line 156: time.sleep(scrape_time_delay) returns
SleepElapsed ==
    /\ mainPc = "sleeping"
    /\ mainPc' = "loop"
    /\ UNCHANGED <<config, idx, cycle, task, registry, regAtStart, printed, prev, otherVars>>

TaskStep(l) ==
    \/ TaskStart(l)
    \/ \E refused \in BOOLEAN : TaskStartClosed(l, refused)
    \/ ConnectionError(l)
    \/ \E ok \in BOOLEAN : ResponseHead(l, ok)
    \/ \E data \in Bodies : ResponseBody(l, data)
    \/ Timeout(l)

MainStep ==
    \/ StartCycle
    \/ SkipConfigSection
    \/ CreateTask
    \/ MissingUrl
    \/ RunRaises
    \/ AwaitGather
    \/ CollectReturn
    \/ SleepElapsed

Next == MainStep \/ \E l \in Targets : TaskStep(l)

Spec == Init /\ [][Next]_vars

-----------------------------------------------------------------------------
(* ensure_auto_parameter on its own, over every URL of a bounded shape:      *)
(* scheme://h, an optional path, an optional query, an optional fragment,    *)
(* and URLs with an empty host or no scheme                                  *)

QueryTokens == {"auto", "AUTO", "x", "1", "=", "&"}

QueryStrings == UNION {[1..n -> QueryTokens] : n \in 0..MaxQueryLen}

\* URLs with a host
HostUrls ==
    {<<sch, ":", "/", "/", "h">> \o path \o q \o f :
        sch \in SchemeWords,
        path \in {<<>>, <<"/", "s">>},
        q \in {<<>>} \cup {<<"?">> \o qs : qs \in QueryStrings},
        f \in {<<>>, <<"#">>, <<"#", "f">>}}

\* URLs with an empty host, or with no scheme, and a path of one or two
\* leading slashes
HostlessUrls ==
    {sch \o <<"/", "/">> \o host \o path \o q \o f :
        sch \in {<<"http", ":">>, <<>>},
        host \in {<<>>, <<"h">>},
        path \in {<<"/", "s">>, <<"/", "/", "s">>},
        q \in {<<>>, <<"?", "x", "=", "1">>, <<"?", "auto", "=", "1">>},
        f \in {<<>>, <<"#", "f">>}}

UrlSet == HostUrls \cup HostlessUrls

UrlInit ==
    /\ MainIdle
    /\ TextIdle
    /\ ProxyIdle
    /\ url \in UrlSet
    /\ newUrl = <<>>
    /\ againUrl = <<>>
    /\ urlPc = 0

\* line 101: url = ensure_auto_parameter(config[server_label]['url'])
Normalize ==
    /\ urlPc = 0
    /\ newUrl' = ensure_auto_parameter(url)
    /\ urlPc' = 1
    /\ UNCHANGED <<mainVars, textVars, proxyVars, url, againUrl>>

\* ensure_auto_parameter applied to its own result, as a second pass over a
\* configuration written back with the normalised URL would
NormalizeAgain ==
    /\ urlPc = 1
    /\ againUrl' = ensure_auto_parameter(newUrl)
    /\ urlPc' = 2
    /\ UNCHANGED <<mainVars, textVars, proxyVars, url, newUrl>>

UrlNext == Normalize \/ NormalizeAgain

UrlSpec == UrlInit /\ [][UrlNext]_vars

-----------------------------------------------------------------------------
(* The parser and the projection on their own: fetch_apache_status from     *)
(* line 56 on and update_metrics, applied to one response text for one      *)
(* label whose gauges have never been set.  The texts are every token       *)
(* sequence up to MaxTextLen over RawTokens, and every text written from up *)
(* to MaxLines status lines                                                 *)

RawTokens == {"K", ":", " ", "\n"}

RawTexts == UNION {[1..n -> RawTokens] : n \in 0..MaxTextLen}

WorkerValues == (-1)..MaxWorkers

\* the values of a line that are no integers: a word, and the exponent form,
\* the infinity and the not-a-number that mod_status and float() share
OtherTexts == << <<"abc">>, <<"1", "e", "-", "0", "5">>, <<"inf">>, <<"nan">> >>

\* a status line: its key and either an integer (num) or the text
\* OtherTexts[n].  A worker line has any of them; a CPULoad line has one of
\* the texts float() accepts
StatusLines ==
    [key : {KeyBusyWorkers, KeyIdleWorkers}, num : {TRUE}, n : WorkerValues]
        \cup [key : {KeyBusyWorkers, KeyIdleWorkers}, num : {FALSE},
               n : 1..Len(OtherTexts)]
        \cup [key : {<<"CPULoad">>}, num : {FALSE}, n : 2..Len(OtherTexts)]

Pages == UNION {[1..k -> StatusLines] : k \in 0..MaxLines}

DigitTok(d) ==
    CASE d = 0 -> "0" [] d = 1 -> "1" [] d = 2 -> "2" [] d = 3 -> "3"
      [] d = 4 -> "4" [] d = 5 -> "5" [] d = 6 -> "6" [] d = 7 -> "7"
      [] d = 8 -> "8" [] d = 9 -> "9"

RECURSIVE NatText(_)
NatText(n) == IF n < 10 THEN <<DigitTok(n)>>
              ELSE Append(NatText(n \div 10), DigitTok(n % 10))

\* the decimal text of an integer, as mod_status writes it
IntText(n) == IF n < 0 THEN <<"-">> \o NatText(-n) ELSE NatText(n)

RenderLine(e) ==
    e.key \o <<":", " ">> \o (IF e.num THEN IntText(e.n) ELSE OtherTexts[e.n])

\* the lines joined by newlines
RECURSIVE Render(_)
Render(pg) ==
    IF pg = <<>> THEN <<>>
    ELSE IF Len(pg) = 1 THEN RenderLine(pg[1])
    ELSE RenderLine(pg[1]) \o <<"\n">> \o Render(Tail(pg))

TextInit ==
    /\ MainIdle
    /\ UrlIdle
    /\ ProxyIdle
    /\ \/ page \in Pages /\ text = Render(page)
       \/ page = <<>> /\ text \in RawTexts
    /\ parsedStatus = <<>>
    /\ labelGauges = [g \in GaugeNames |-> Unset]
    /\ didRaise = FALSE
    /\ textPc = 0

\* lines 56-63 and 116: the text is parsed and update_metrics sets the gauges
ProcessText ==
    /\ textPc = 0
    /\ LET server_status == parse_status(text)
           r == update_metrics(labelGauges, server_status)
       IN  /\ parsedStatus' = server_status
           /\ labelGauges' = r.g
           /\ didRaise' = r.raised
    /\ textPc' = 1
    /\ UNCHANGED <<mainVars, urlVars, proxyVars, page, text>>

TextNext == ProcessText

TextSpec == TextInit /\ [][TextNext]_vars

-----------------------------------------------------------------------------
(* The proxies of one target on their own: main lines 134-141,              *)
(* collect_metrics lines 103-104 and fetch_apache_status lines 43-53.  A    *)
(* proxy option is a record: set = FALSE is Python's None (the option is    *)
(* not in the section), otherwise v is the text of the option               *)

\* the texts an option is given: the word None and two proxy URLs
ProxyTexts == {"None", "p1", "p2"}

ProxyOptions == {NoProxy} \cup [set : {TRUE}, v : ProxyTexts]

ProxyPairs == [http : ProxyOptions, https : ProxyOptions]

\* section.get(option, fallback) of configparser
config_get(option, fallback) == IF option.set THEN option ELSE fallback

\* lines 138-141: if global_http_proxy == "None": global_http_proxy = None
none_string_to_none(p) == IF p.set /\ p.v = "None" THEN NoProxy ELSE p

\* lines 43-51: the proxies dict, with an entry for each proxy that is not None
proxies_dict(http_proxy, https_proxy) ==
    [k \in {kk \in {"http", "https"} :
                (IF kk = "http" THEN http_proxy ELSE https_proxy).set} |->
        IF k = "http" THEN http_proxy ELSE https_proxy]

\* lines 48 and 51: os.environ['http_proxy'], os.environ['https_proxy']
environ_after(env, http_proxy, https_proxy) ==
    [http |-> IF http_proxy.set THEN http_proxy ELSE env.http,
     https |-> IF https_proxy.set THEN https_proxy ELSE env.https]

\* line 53: proxy=proxies.get('http')
proxies_get_http(proxies) ==
    IF "http" \in DOMAIN proxies THEN proxies["http"] ELSE NoProxy

ProxyInit ==
    /\ MainIdle
    /\ UrlIdle
    /\ TextIdle
    /\ pxConfig \in [global : ProxyPairs, target : ProxyPairs, scheme : {"http", "https"}]
    /\ pxGlobal = NoProxies
    /\ pxTask = NoProxies
    /\ pxEnviron = NoProxies
    /\ pxGet = NoProxy
    /\ pxPc = "main"

\* main, lines 134-141
ReadGlobalProxies ==
    /\ pxPc = "main"
    /\ pxGlobal' = [http |-> none_string_to_none(config_get(pxConfig.global.http, NoProxy)),
                    https |-> none_string_to_none(config_get(pxConfig.global.https, NoProxy))]
    /\ pxPc' = "collect"
    /\ UNCHANGED <<mainVars, urlVars, textVars, pxConfig, pxTask, pxEnviron, pxGet>>

\* collect_metrics, lines 103-106
ResolveProxies ==
    /\ pxPc = "collect"
    /\ pxTask' = [http |-> config_get(pxConfig.target.http, pxGlobal.http),
                  https |-> config_get(pxConfig.target.https, pxGlobal.https)]
    /\ pxPc' = "fetch"
    /\ UNCHANGED <<mainVars, urlVars, textVars, pxConfig, pxGlobal, pxEnviron, pxGet>>

\* fetch_apache_status, lines 43-53, up to the call of session.get
FetchWithProxy ==
    /\ pxPc = "fetch"
    /\ pxEnviron' = environ_after(pxEnviron, pxTask.http, pxTask.https)
    /\ pxGet' = proxies_get_http(proxies_dict(pxTask.http, pxTask.https))
    /\ pxPc' = "got"
    /\ UNCHANGED <<mainVars, urlVars, textVars, pxConfig, pxGlobal, pxTask>>

ProxyNext == ReadGlobalProxies \/ ResolveProxies \/ FetchWithProxy

ProxySpec == ProxyInit /\ [][ProxyNext]_vars

\* The scheduling the code relies on once a cycle has fanned out: the event
\* loop gives every created task its first turn, the time limit of a pending
\* request fires unless the request ends first, and gather returns once every
\* task has ended.  Nothing obliges a target to answer
FairSpec ==
    /\ Spec
    /\ WF_vars(CollectReturn)
    /\ \A l \in Targets : WF_vars(TaskStart(l)) /\ WF_vars(Timeout(l))

-----------------------------------------------------------------------------
(* The claims *)

Zero == Rat(0, 1)

\* the unit of work of l has run update_metrics in the current cycle and ended
Projected(l) ==
    /\ task[l].cyc = cycle
    /\ task[l].parsed
    /\ task[l].st \in {"done", "failed"}

\* the seven fields of the fixed table: <<key, gauge>>
TableFields ==
    {FloatFields[i] : i \in 1..Len(FloatFields)}
        \cup {<<KeyBusyWorkers, "busy_workers">>, <<KeyIdleWorkers, "idle_workers">>}

Present(server_status, f) == f[1] \in DOMAIN server_status

\* present, and not the text of a number
NonNumeric(server_status, f) ==
    Present(server_status, f) /\ ~python_float(Stored(server_status[f[1]])).ok

\* C1: a failure of the unit of work of target a neither cancels the unit of
\* work of another target b nor stops it from starting or going on: while a
\* has failed, b is never cancelled, and if b has not ended yet the collector
\* is still gathering and b has a step to take.
C1_FailureIsolated ==
    \A a \in Targets, b \in Targets :
        (a # b /\ task[a].st = "failed" /\ task[a].cyc = cycle) =>
            /\ task[b].st # "cancelled"
            /\ (task[b].st \in InFlight =>
                    /\ task[b].cyc = cycle
                    /\ mainPc = "gather"
                    /\ ENABLED TaskStep(b))

\* a has failed while b is still waiting for its response
C1_Witness ==
    /\ task["a"].st = "failed" /\ task["a"].cyc = cycle
    /\ task["b"].st = "fetching" /\ task["b"].cyc = cycle

\* C2: when the unit of work of a label has failed in a cycle, every gauge of
\* that label has after the cycle the value it had before the cycle.
C2_FailedCycleKeepsGauges ==
    \A l \in Targets :
        (mainPc = "sleeping" /\ task[l].cyc = cycle /\ task[l].st = "failed") =>
            registry[l] = regAtStart[l]

\* C3: when a field of the table is present with a non-numeric value,
\* update_metrics puts 0 in its gauge, sets every other gauge from its own
\* value (0 when absent) and the unit of work does not fail.
C3_NonNumericBecomesZero ==
    \A l \in Targets :
        (Projected(l) /\ \E f \in TableFields : NonNumeric(task[l].server_status, f)) =>
            /\ task[l].st = "done"
            /\ \A f \in TableFields :
                  registry[l][f[2]] =
                      IF NonNumeric(task[l].server_status, f)
                         \/ ~Present(task[l].server_status, f)
                      THEN Zero
                      ELSE python_float(Stored(task[l].server_status[f[1]])).v

\* C4: for every parsed mapping, every field of the table absent from it has
\* its gauge set to 0 and the projection of the other gauges completes without
\* raising; with the empty mapping all eight gauges are 0.
C4_AbsentBecomesZero ==
    \A l \in Targets :
        Projected(l) =>
            /\ task[l].st = "done"
            /\ \A f \in TableFields :
                  ~Present(task[l].server_status, f) => registry[l][f[2]] = Zero
            /\ (DOMAIN task[l].server_status = {} =>
                    \A g \in GaugeNames : registry[l][g] = Zero)

\* the name of a piece of the query: what precedes its first "="
PieceName(piece) == str_split1(piece, <<"=">>)[1]

\* the query of u has the auto parameter in some form: bare or with a value,
\* at any position, in any letter case
HasAutoParameter(u) ==
    LET pieces == str_split(urlparse(u).query, <<"&">>)
    IN  \E i \in 1..Len(pieces) : str_lower(PieceName(pieces[i])) = <<"auto">>

\* C5: a URL whose query already has the auto parameter in any form is
\* returned unchanged by ensure_auto_parameter.
C5_AutoPresentUnchanged ==
    (urlPc = 1 /\ HasAutoParameter(url)) => newUrl = url

\* C6: for a URL whose query has no auto parameter, ensure_auto_parameter
\* returns a URL with the same scheme, host, path and fragment whose query is
\* the original query followed by "&auto", or "auto" when there was no query;
\* the original parameters are all there, in their order, before the new one.
C6_AutoAppended ==
    (urlPc = 1 /\ ~HasAutoParameter(url)) =>
        LET p == urlparse(url)
            r == urlparse(newUrl)
        IN  /\ r.scheme = p.scheme
            /\ r.netloc = p.netloc
            /\ r.path = p.path
            /\ r.fragment = p.fragment
            /\ r.query = IF p.query # <<>> THEN p.query \o <<"&", "auto">>
                         ELSE <<"auto">>
            /\ str_split(r.query, <<"&">>) =
                  (IF p.query # <<>> THEN str_split(p.query, <<"&">>) ELSE <<>>)
                      \o << <<"auto">> >>

\* C7: once the collection loop runs, no failure during a cycle, a target
\* section without url included, ends the process or stops the loop.
C7_LoopNeverDies == mainPc # "crashed"

\* C8: collect_metrics returns only when the unit of work of every configured
\* target has completed its projection or failed.
C8_ReturnsWhenAllEnded ==
    mainPc = "sleeping" =>
        \A l \in Targets : task[l].cyc = cycle /\ task[l].st \in {"done", "failed"}

\* the cycle is over with one target projected and the other failed
C8_Witness ==
    /\ mainPc = "sleeping"
    /\ \E l \in Targets : task[l].st = "done"
    /\ \E l \in Targets : task[l].st = "failed"

\* C9: cycles are strictly sequential: a cycle starts only from the top of the
\* loop, reached only from the elapsed sleep, with no unit of work in flight,
\* and every unit of work in flight belongs to the cycle under way.
C9_CyclesSequential ==
    [][/\ \A l \in Targets : task'[l].st \in InFlight => task'[l].cyc = cycle'
       /\ cycle' # cycle =>
            /\ mainPc = "loop"
            /\ \A l \in Targets : task[l].st \notin InFlight
       /\ (mainPc' = "loop" /\ mainPc # "loop") => mainPc = "sleeping"]_vars

\* a second cycle has units of work in flight
C9_Witness ==
    /\ cycle = 2
    /\ mainPc = "gather"
    /\ \E l \in Targets : task[l].st = "fetching"

\* C10: every cycle that has fanned out reaches its fan-in, and a request of
\* such a cycle that is never answered ends, because the time limit of the
\* request fails it.  (A cycle that ends with the KeyError of line 101 never
\* fans out; what becomes of it is C7.)
C10_CycleCompletes ==
    /\ (mainPc = "gather") ~> (mainPc = "sleeping")
    /\ \A l \in Targets :
          (mainPc = "gather" /\ task[l].st \in {"fetching", "reading"})
              ~> (task[l].st \in {"done", "failed"})

\* a cycle ended after a request ran into the time limit
C10_Witness ==
    /\ mainPc = "sleeping"
    /\ \E l \in Targets : task[l].st = "failed" /\ task[l].err = "TimeoutError"

-----------------------------------------------------------------------------
(* Claims about the parser and the projection, under TextSpec *)

\* the last line of the page pg that has the key, or the default 0 of
\* server_status.get(key, 0) when no line has it
LastOf(pg, key) ==
    LET I == {i \in 1..Len(pg) : pg[i].key = key}
    IN  IF I = {} THEN [key |-> key, num |-> TRUE, n |-> 0]
        ELSE pg[CHOOSE i \in I : \A j \in I : j <= i]

\* the rational r is busy / idle when idle > 0, and busy otherwise
IsWorkerRatio(r, busy, idle) ==
    /\ r # Unset
    /\ r[2] > 0
    /\ IF idle > 0 THEN r[1] * idle = busy * r[2] ELSE r[1] = busy * r[2]

\* C11: whenever BusyWorkers and IdleWorkers are integers busy and idle (an
\* absent one counting as 0), update_metrics does not raise and sets
\* worker_ratio to busy / idle when idle > 0 and to busy otherwise; idle = 0
\* is no division by zero.
C11_WorkerRatio ==
    textPc = 1 =>
        LET b == LastOf(page, KeyBusyWorkers)
            i == LastOf(page, KeyIdleWorkers)
        IN  (b.num /\ i.num) =>
                /\ ~didRaise
                /\ IsWorkerRatio(labelGauges["worker_ratio"], b.n, i.n)

\* five busy workers and no idle one: the ratio is 5
C11_Witness ==
    /\ textPc = 1
    /\ LastOf(page, KeyBusyWorkers).n = 5
    /\ Len(page) = 2 /\ page[2].key = KeyIdleWorkers /\ page[2].num /\ page[2].n = 0
    /\ labelGauges["worker_ratio"] = <<5, 1>>

\* The lines of a text t, named by the position of their first token: a line
\* starts at 1 and after every newline, and ends before the next newline
LineStarts(t) == {1} \cup {i + 1 : i \in {j \in 1..Len(t) : t[j] = "\n"}}

LineAt(t, s) ==
    LET nl == {j \in s..Len(t) : t[j] = "\n"}
    IN  IF nl = {} THEN SubSeq(t, s, Len(t))
        ELSE SubSeq(t, s, (CHOOSE j \in nl : \A k \in nl : j <= k) - 1)

\* the positions of the occurrences of ': ' in a line
SepAt(line) == {i \in 1..(Len(line) - 1) : line[i] = ":" /\ line[i + 1] = " "}

\* the lines of t that contain exactly one ': '
OneSepLines(t) == {s \in LineStarts(t) : Cardinality(SepAt(LineAt(t, s))) = 1}

\* x without its leading and trailing whitespace
Trimmed(x) ==
    LET ink == {i \in 1..Len(x) : x[i] \notin Whitespace}
    IN  IF ink = {} THEN <<>>
        ELSE SubSeq(x, CHOOSE i \in ink : \A j \in ink : i <= j,
                       CHOOSE i \in ink : \A j \in ink : j <= i)

IsTrimmed(x) == x = <<>> \/ (x[1] \notin Whitespace /\ x[Len(x)] \notin Whitespace)

\* the trimmed key and value of a line that contains exactly one ': '
KeyOf(line) == Trimmed(SubSeq(line, 1, (CHOOSE i \in SepAt(line) : TRUE) - 1))
ValOf(line) == Trimmed(SubSeq(line, (CHOOSE i \in SepAt(line) : TRUE) + 2, Len(line)))

\* C12 as stated: the parsed mapping has as many entries as the text has
\* lines with exactly one ': ', and every key and value is stripped.
C12_SizeIsLineCount ==
    textPc = 1 =>
        /\ Cardinality(DOMAIN parsedStatus) = Cardinality(OneSepLines(text))
        /\ \A k \in DOMAIN parsedStatus : IsTrimmed(k) /\ IsTrimmed(parsedStatus[k])

\* C12, amended: the keys of the parsed mapping are exactly the stripped keys
\* of the lines with exactly one ': ', so its size is the number of distinct
\* such keys (the number of such lines when no key repeats); every value is
\* the stripped value of such a line with that key; lines with no ': ' or
\* more than one contribute nothing.
C12_SizeIsDistinctKeys ==
    textPc = 1 =>
        LET good == OneSepLines(text)
            keys == {KeyOf(LineAt(text, s)) : s \in good}
        IN  /\ DOMAIN parsedStatus = keys
            /\ Cardinality(DOMAIN parsedStatus) = Cardinality(keys)
            /\ Cardinality(keys) = Cardinality(good)
                   \/ \E s1 \in good, s2 \in good :
                          s1 # s2 /\ KeyOf(LineAt(text, s1)) = KeyOf(LineAt(text, s2))
            /\ \A k \in DOMAIN parsedStatus :
                   /\ IsTrimmed(k) /\ IsTrimmed(parsedStatus[k])
                   /\ \E s \in good : /\ KeyOf(LineAt(text, s)) = k
                                       /\ ValOf(LineAt(text, s)) = parsedStatus[k]

\* two lines with exactly one ': ' each and the same key: one entry
C12_Witness ==
    /\ textPc = 1
    /\ Cardinality(LineStarts(text)) >= 2
    /\ Cardinality(OneSepLines(text)) = 2
    /\ Cardinality(DOMAIN parsedStatus) = 1

\* the last line of t with exactly one ': ' whose stripped key is k
LastLineWith(t, k) ==
    LET with == {s \in OneSepLines(t) : KeyOf(LineAt(t, s)) = k}
    IN  LineAt(t, CHOOSE s \in with : \A r \in with : r <= s)

\* C13: the value the parsed mapping holds for a key is the stripped value of
\* the last accepted line with that key, and when the projection completes
\* the busy_workers gauge is the number on the last BusyWorkers line.
C13_LastLineWins ==
    textPc = 1 =>
        /\ \A k \in DOMAIN parsedStatus :
               parsedStatus[k] = ValOf(LastLineWith(text, k))
        /\ ~didRaise =>
               labelGauges["busy_workers"] = <<LastOf(page, KeyBusyWorkers).n, 1>>

\* BusyWorkers: 3 followed by BusyWorkers: 7 has set busy_workers to 7
C13_Witness ==
    /\ textPc = 1
    /\ text = <<"BusyWorkers", ":", " ", "3", "\n", "BusyWorkers", ":", " ", "7">>
    /\ parsedStatus[KeyBusyWorkers] = <<"7">>
    /\ labelGauges["busy_workers"] = <<7, 1>>

-----------------------------------------------------------------------------
(* Claims about the registry across cycles and labels, under Spec *)

\* what update_metrics leaves of server_status in gauges that were never set
FreshGauges(server_status) ==
    update_metrics([g \in GaugeNames |-> Unset], server_status).g

\* the unit of work of l fetched in this cycle the content it fetched in the
\* cycle before
SameContentAgain(l) ==
    /\ cycle >= 2
    /\ prev[l].parsed
    /\ fetched_content(task[l], cycle) = prev[l]

\* C14: when a cycle has fetched for a target the content the cycle before
\* fetched for it, the gauges of the target after the cycle are those after
\* the cycle before.  Values are overwritten and not accumulated: in any
\* cycle, a projection that completes leaves exactly the gauges the content
\* gives in a registry that held nothing, and otherwise every gauge either is
\* as it was when the cycle started or holds the value the content gives.
C14_SecondCycleSame ==
    mainPc = "sleeping" =>
        \A l \in Targets :
            /\ SameContentAgain(l) => registry[l] = regAtStart[l]
            /\ Projected(l) =>
                   LET fresh == FreshGauges(task[l].server_status)
                   IN  /\ task[l].st = "done" => registry[l] = fresh
                       /\ \A g \in GaugeNames :
                              \/ registry[l][g] = regAtStart[l][g]
                              \/ registry[l][g] = fresh[g]

\* the second cycle has fetched the healthy page again for every target
C14_Witness ==
    /\ mainPc = "sleeping"
    /\ \A l \in Targets :
           /\ SameContentAgain(l)
           /\ task[l].st = "done"
           /\ registry[l]["busy_workers"] = <<3, 1>>
           /\ registry[l] = regAtStart[l]

-----------------------------------------------------------------------------
(* Claims about the proxies, under ProxySpec *)

\* the option holds a proxy: it is in the section and is not the word that
\* means no proxy
HoldsProxy(option) == option.set /\ option.v # "None"

\* C15: for each proxy kind, the proxy handed to the unit of work is the
\* target section's own option when it holds a proxy, otherwise the global
\* option when it holds a proxy, otherwise none; an option that says None
\* counts as absent in the target section as in the global one.
C15_ProxyResolution ==
    pxPc \in {"fetch", "got"} =>
        \A kind \in {"http", "https"} :
            pxTask[kind] =
                IF HoldsProxy(pxConfig.target[kind]) THEN pxConfig.target[kind]
                ELSE IF HoldsProxy(pxConfig.global[kind]) THEN pxConfig.global[kind]
                ELSE NoProxy

\* C16: the proxy argument of the GET is the proxy resolved for the protocol
\* of the target's URL: the https proxy for an https URL, the http proxy for
\* an http URL, and none when none is resolved for that protocol.
C16_ProxyOfUrlProtocol ==
    pxPc = "got" => pxGet = pxTask[pxConfig.scheme]

\* C17: no cycle creates more than one unit of work for a label and no unit
\* calls session.get more than once; while the collector gathers, and when it
\* has returned, every label has exactly one unit of the cycle, and once the
\* collector has returned each unit has made exactly one GET; a unit is only
\* created for a label when the label's unit before it has ended, so at most
\* one unit per label is in flight.
C17_OneUnitOneGet ==
    /\ [](\A l \in Targets :
             /\ task[l].made <= 1
             /\ task[l].gets <= 1
             /\ task[l].st \in InFlight => task[l].cyc = cycle
             /\ mainPc \in {"gather", "sleeping"} =>
                    task[l].cyc = cycle /\ task[l].made = 1
             /\ mainPc = "sleeping" =>
                    task[l].gets = 1 /\ task[l].st \in {"done", "failed"})
    /\ [][\A l \in Targets :
             (task'[l].cyc # task[l].cyc \/ task'[l].made # task[l].made) =>
                 task[l].st \notin InFlight]_vars

\* the second cycle is over: one target failed, the other succeeded, and each
\* was asked once
C17_Witness ==
    /\ mainPc = "sleeping"
    /\ cycle = 2
    /\ task["a"].st = "failed" /\ task["a"].err = "ClientError"
    /\ task["b"].st = "done"
    /\ \A l \in Targets : task[l].cyc = cycle /\ task[l].gets = 1 /\ task[l].made = 1

\* C18: a step changes the gauges of a label l only when it is the unit of
\* work of l projecting the content it has just read, the new gauges of l are
\* what update_metrics makes of l's gauges and l's content, and that step
\* leaves the gauges of every other label as they were; when the collector has
\* returned, the gauges of l are what update_metrics makes of l's content and
\* l's gauges at the start of the cycle (unchanged if l fetched none),
\* whatever the other targets did and in whatever order.
C18_OwnLabelOnly ==
    /\ [][\A l \in Targets :
             registry'[l] # registry[l] =>
                 /\ task[l].st = "reading"
                 /\ task'[l].parsed
                 /\ registry'[l] = update_metrics(registry[l], task'[l].server_status).g
                 /\ \A m \in Targets \ {l} :
                        registry'[m] = registry[m] /\ task'[m] = task[m]]_vars
    /\ [](mainPc = "sleeping" =>
             \A l \in Targets :
                 registry[l] = IF Projected(l)
                               THEN update_metrics(regAtStart[l], task[l].server_status).g
                               ELSE regAtStart[l])

\* both targets have been projected in one cycle, from different contents
C18_Witness ==
    /\ mainPc = "sleeping"
    /\ Projected("a") /\ Projected("b")
    /\ task["a"].server_status # task["b"].server_status
    /\ registry["a"]["busy_workers"] = <<3, 1>>
    /\ registry["b"]["busy_workers"] = <<5, 1>>

\* the three worker gauges of the gauges g of one label
WorkerGauges(g) == <<g["busy_workers"], g["idle_workers"], g["worker_ratio"]>>

\* C20: in every reachable state (update_metrics runs within one step of the
\* event loop, so no state lies inside a call) the three worker gauges of a
\* label are all unset or all set, and when set busy_workers and idle_workers
\* are integers and worker_ratio is busy / idle when idle > 0 and busy
\* otherwise; a step that changes one of the three sets all three from the
\* content the label's unit has just read.
C20_WorkerGaugesConsistent ==
    /\ [](\A l \in Targets :
             LET w == WorkerGauges(registry[l])
             IN  \/ w = <<Unset, Unset, Unset>>
                 \/ /\ w[1] # Unset /\ w[2] # Unset /\ w[3] # Unset
                    /\ w[1][2] = 1 /\ w[2][2] = 1
                    /\ IsWorkerRatio(w[3], w[1][1], w[2][1]))
    /\ [][\A l \in Targets :
             WorkerGauges(registry'[l]) # WorkerGauges(registry[l]) =>
                 LET st == task'[l].server_status
                     busy == python_int(dict_get(st, KeyBusyWorkers))
                     idle == python_int(dict_get(st, KeyIdleWorkers))
                 IN  /\ task'[l].parsed /\ task'[l].st = "done"
                     /\ busy.ok /\ idle.ok
                     /\ registry'[l]["busy_workers"] = busy.v
                     /\ registry'[l]["idle_workers"] = idle.v
                     /\ IsWorkerRatio(registry'[l]["worker_ratio"],
                                      busy.v[1], idle.v[1])]_vars

\* a has the worker gauges of a page with 5 busy and no idle worker, and a
\* later page whose IdleWorkers is not an integer has left all three alone
C20_Witness ==
    /\ cycle = 2
    /\ task["a"].cyc = 2 /\ task["a"].st = "failed" /\ task["a"].err = "ValueError"
    /\ task["a"].server_status = parse_status(BodyBadInt)
    /\ registry["a"]["uptime"] = <<9, 1>>
    /\ WorkerGauges(registry["a"]) = <<(<<5, 1>>), (<<0, 1>>), (<<5, 1>>)>>

-----------------------------------------------------------------------------
(* Claims about ensure_auto_parameter applied twice, under UrlSpec *)

\* C19: ensure_auto_parameter is idempotent: applied to its own result it
\* returns that result, ensure_auto_parameter(ensure_auto_parameter(u)) =
\* ensure_auto_parameter(u).
C19_Idempotent == urlPc = 2 => againUrl = newUrl
====
